---- MODULE Spec2Model ----
(***************************************************************************)
(* A model of conan-qt's options.py: the option objects a recipe declares, *)
(* the recipe (conan) they act on, and the caller-supplied mappings and    *)
(* argument list they write to.                                            *)
(*                                                                         *)
(* The recipe is the external collaborator of options.py.  It is modelled  *)
(* as a plain Python attribute store: conan.options is a mapping whose     *)
(* DOMAIN is the set of option names still present, getattr / delattr /    *)
(* indexing of an absent name raise, and conan.requires(x) records x.      *)
(***************************************************************************)
EXTENDS Integers, Sequences, FiniteSets, TLC

VARIABLES
    objs,             \* the option objects built at recipe declaration
    conan,            \* the recipe: [os, options, requires]
    args,             \* the build tool's argument list handed to apply
    options,          \* the mapping handed to collect_option
    default_options,  \* the mapping handed to collect_default_option
    call,             \* the last call made: [op, self]
    result            \* how it ended: [exc, val]

vars == <<objs, conan, args, options, default_options, call, result>>

---------------------------------------------------------------------------
(* Bounds of the model.                                                    *)

MaxArgs == 2        \* longest argument list explored
MaxRequires == 2    \* most requirements a recipe registers

---------------------------------------------------------------------------
(* Python values: None, bool, int and str, told apart by their type tag.  *)

PyNone == [t |-> "NoneType", b |-> FALSE, i |-> 0, s |-> ""]
PyBool(x) == [t |-> "bool", b |-> x, i |-> 0, s |-> ""]
PyInt(n) == [t |-> "int", b |-> FALSE, i |-> n, s |-> ""]
PyStr(x) == [t |-> "str", b |-> FALSE, i |-> 0, s |-> x]

\* Python truth value testing, as `if v:` and `a if v else b` apply it.
Truthy(v) ==
    CASE v.t = "bool" -> v.b
      [] v.t = "int" -> v.i /= 0
      [] v.t = "str" -> v.s /= ""
      [] OTHER -> FALSE

Digit(d) ==
    CASE d = 0 -> "0" [] d = 1 -> "1" [] d = 2 -> "2" [] d = 3 -> "3"
      [] d = 4 -> "4" [] d = 5 -> "5" [] d = 6 -> "6" [] d = 7 -> "7"
      [] d = 8 -> "8" [] OTHER -> "9"

RECURSIVE NatStr(_)
NatStr(n) == IF n < 10 THEN Digit(n) ELSE NatStr(n \div 10) \o Digit(n % 10)

\* str(v) and "{}".format(v)
Str(v) ==
    CASE v.t = "bool" -> (IF v.b THEN "True" ELSE "False")
      [] v.t = "int" -> (IF v.i < 0 THEN "-" \o NatStr(0 - v.i) ELSE NatStr(v.i))
      [] v.t = "str" -> v.s
      [] OTHER -> "None"

\* How a call ends: it returns val, or raises exc.
Return(v) == [exc |-> "", val |-> v]
Raise(e) == [exc |-> e, val |-> PyNone]

---------------------------------------------------------------------------
(* The classes of options.py: base class and the methods each defines.     *)

Base(cls) ==
    CASE cls = "NoOption" -> "PrependOption"
      [] cls \in {"SimpleOption", "PrependOption", "YesNoOption",
                  "SystemQtOption", "BinaryOption", "ValueOption"} -> "OptionBase"
      [] OTHER -> "object"

Defines(cls) ==
    CASE cls = "OptionBase" ->
            {"__init__", "collect_option", "collect_default_option",
             "config_options", "requirements", "apply", "apply_if_available",
             "get_value", "is_enable", "_is_available"}
      [] cls = "GroupOption" ->
            {"__init__", "collect_option", "collect_default_option",
             "config_options", "requirements", "apply_if_available"}
      [] cls = "NoOption" -> {"__init__"}
      [] cls \in {"SimpleOption", "PrependOption", "YesNoOption",
                  "SystemQtOption", "BinaryOption", "ValueOption"} ->
            {"__init__", "apply_option"}
      [] OTHER -> {}

\* The class whose definition of method m an instance of cls runs
\* ("object" when no class on the way defines it).
RECURSIVE MethodOwner(_, _)
MethodOwner(cls, m) ==
    IF m \in Defines(cls) \/ cls = "object" THEN cls
    ELSE MethodOwner(Base(cls), m)

\* self.<field> of an instance
HasAttr(self, field) == field \in DOMAIN self

---------------------------------------------------------------------------
(* Construction.  A call binds its positional arguments to the parameters  *)
(* of the callee; too many or too few of them is a TypeError.              *)

\* os_availability: None, or a collection of platform names
NoneSet == [isNone |-> TRUE, elems |-> {}]
OsSet(S) == [isNone |-> FALSE, elems |-> S]

BoolValues == <<PyBool(TRUE), PyBool(FALSE)>>     \* the literal [True, False]

NoObject == [class |-> "NoneType"]

\* `defaults` are the default values of the last Len(defaults) parameters.
CallPositional(params, defaults, actuals) ==
    IF Len(actuals) > Len(params) \/ Len(actuals) < Len(params) - Len(defaults)
    THEN [exc |-> "TypeError", bound |-> <<>>]
    ELSE [exc |-> "",
          bound |-> [k \in 1..Len(params) |->
                        IF k <= Len(actuals) THEN actuals[k]
                        ELSE defaults[k - (Len(params) - Len(defaults))]]]

OptionBase_params ==
    <<"name", "values", "default_value", "os_availability", "requirements">>

\* OptionBase.__init__, run for an instance of class cls
OptionBase_init(cls, actuals) ==
    LET c == CallPositional(OptionBase_params, <<NoneSet, PyNone>>, actuals) IN
    IF c.exc /= "" THEN [exc |-> c.exc, obj |-> NoObject]
    ELSE [exc |-> "",
          obj |-> [class |-> cls,
                   _name |-> c.bound[1],
                   _values |-> c.bound[2],
                   _default_value |-> c.bound[3],
                   _os_availability |-> c.bound[4],
                   _requirements |-> c.bound[5]]]

SimpleOption(name, default_values, option, os_availability, requirements) ==
    LET b == OptionBase_init("SimpleOption",
                 <<name, BoolValues, default_values, os_availability, requirements>>) IN
    IF b.exc /= "" THEN b
    ELSE [exc |-> "", obj |-> b.obj @@ [_option |-> option]]

PrependOption_params ==
    <<"name", "default_value", "option", "yes_prefix", "no_prefix",
      "os_availability", "requirements">>

\* PrependOption.__init__, run for an instance of class cls
PrependOption_init(cls, actuals) ==
    LET c == CallPositional(PrependOption_params, <<NoneSet, PyNone>>, actuals) IN
    IF c.exc /= "" THEN [exc |-> c.exc, obj |-> NoObject]
    ELSE LET b == OptionBase_init(cls,
                      <<c.bound[1], BoolValues, c.bound[2], c.bound[6], c.bound[7]>>) IN
         IF b.exc /= "" THEN b
         ELSE [exc |-> "",
               obj |-> b.obj @@ [_option |-> c.bound[3],
                                 _yes_prefix |-> c.bound[4],
                                 _no_prefix |-> c.bound[5]]]

PrependOption(name, default_value, option, yes_prefix, no_prefix, os_availability, requirements) ==
    PrependOption_init("PrependOption",
        <<name, default_value, option, yes_prefix, no_prefix,
          os_availability, requirements>>)

\* NoOption.__init__ hands PrependOption.__init__ eight positional arguments.
NoOption(name, default_value, option, os_availability, requirements) ==
    PrependOption_init("NoOption",
        <<name, BoolValues, default_value, option, "", "no-",
          os_availability, requirements>>)

YesNoOption(name, default_value, option, os_availability, requirements) ==
    LET b == OptionBase_init("YesNoOption",
                 <<name, BoolValues, default_value, os_availability, requirements>>) IN
    IF b.exc /= "" THEN b
    ELSE [exc |-> "", obj |-> b.obj @@ [_option |-> option]]

SystemQtOption(name, default_value, option, os_availability, requirements) ==
    LET b == OptionBase_init("SystemQtOption",
                 <<name, BoolValues, default_value, os_availability, requirements>>) IN
    IF b.exc /= "" THEN b
    ELSE [exc |-> "", obj |-> b.obj @@ [_option |-> option]]

BinaryOption(name, default_value, yes_option, no_option, os_availability, requirements) ==
    LET b == OptionBase_init("BinaryOption",
                 <<name, BoolValues, default_value, os_availability, requirements>>) IN
    IF b.exc /= "" THEN b
    ELSE [exc |-> "",
          obj |-> b.obj @@ [_yes_option |-> yes_option, _no_option |-> no_option]]

ValueOption(name, values, default_value, option, os_availability, requirements) ==
    LET b == OptionBase_init("ValueOption",
                 <<name, values, default_value, os_availability, requirements>>) IN
    IF b.exc /= "" THEN b
    ELSE [exc |-> "", obj |-> b.obj @@ [_option |-> option]]

\* GroupOption.__init__ stores the primary as _option, the rest as _sub_options.
GroupOption(option, sub_options) ==
    [class |-> "GroupOption", _option |-> option, _sub_options |-> sub_options]

---------------------------------------------------------------------------
(* The recipe's option store, conan.options.                               *)

\* a getattr that falls back to None, as getattr(conan.options, name, None)
getattr_default(store, name) ==
    IF name \in DOMAIN store THEN Return(store[name]) ELSE Return(PyNone)

\* getattr(conan.options, name)
getattr(store, name) ==
    IF name \in DOMAIN store THEN Return(store[name]) ELSE Raise("AttributeError")

\* conan.options[name]
getitem(store, name) ==
    IF name \in DOMAIN store THEN Return(store[name]) ELSE Raise("KeyError")

\* a removal that clears the whole store
delattr_all(store, name) ==
    IF name \in DOMAIN store
    THEN [exc |-> "", store |-> [k \in {} |-> store[k]]]
    ELSE [exc |-> "AttributeError", store |-> store]

\* delattr(conan.options, name)
delattr(store, name) ==
    IF name \in DOMAIN store
    THEN [exc |-> "", store |-> [k \in DOMAIN store \ {name} |-> store[k]]]
    ELSE [exc |-> "AttributeError", store |-> store]

\* an assignment that forgets the other keys
setitem_only(d, key, value) == [k \in {key} |-> value]

\* d[key] = value
setitem(d, key, value) ==
    [k \in DOMAIN d \cup {key} |-> IF k = key THEN value ELSE d[k]]

---------------------------------------------------------------------------
(* OptionBase.  A method that changes the recipe or the argument list      *)
(* gives back the new one together with the exception it raised, if any.   *)

collect_option(self, opts) == setitem(opts, self._name, self._values)

collect_default_option(self, defaults) ==
    setitem(defaults, self._name, self._default_value)

\* an availability test that never consults the platform
_is_available_always(self, c) == TRUE

_is_available(self, c) ==
    self._os_availability.isNone \/ c.os \in self._os_availability.elems

get_value(self, c) == getattr(c.options, self._name)

\* an is_enable that takes any truthy value, as bool(self.get_value(conan))
is_enable_truthy(self, c) ==
    LET v == getattr(c.options, self._name) IN
    IF v.exc /= "" THEN v ELSE Return(PyBool(Truthy(v.val)))

is_enable(self, c) ==
    LET v == get_value(self, c) IN
    IF v.exc /= "" THEN v ELSE Return(PyBool(v.val = PyBool(TRUE)))

config_options(self, c) ==
    IF ~_is_available(self, c)
    THEN LET d == delattr(c.options, self._name) IN
         [exc |-> d.exc, conan |-> [c EXCEPT !.options = d.store]]
    ELSE [exc |-> "", conan |-> c]

requirements(self, c) ==
    IF ~_is_available(self, c) \/ ~Truthy(self._requirements)
    THEN [exc |-> "", conan |-> c]
    ELSE LET e == is_enable(self, c) IN
         IF e.exc /= "" THEN [exc |-> e.exc, conan |-> c]
         ELSE IF e.val.b
              THEN [exc |-> "",
                    conan |-> [c EXCEPT !.requires = Append(@, self._requirements.s)]]
              ELSE [exc |-> "", conan |-> c]

\* OptionBase.apply_if_available: pass
OptionBase_apply_if_available(self, c, a) == [exc |-> "", args |-> a]

\* self.apply_if_available(conan, args), by the class of self
apply_if_available(self, c, a) ==
    IF MethodOwner(self.class, "apply_if_available") = "OptionBase"
    THEN OptionBase_apply_if_available(self, c, a)
    ELSE [exc |-> "AttributeError", args |-> a]

apply(self, c, a) ==
    IF ~_is_available(self, c) THEN [exc |-> "", args |-> a]
    ELSE apply_if_available(self, c, a)

---------------------------------------------------------------------------
(* The concrete kinds: apply_option.                                       *)

SimpleOption_apply_option(self, c, a) ==
    LET v == get_value(self, c) IN
    IF v.exc /= "" THEN [exc |-> v.exc, args |-> a]
    ELSE IF Truthy(v.val)
         THEN [exc |-> "", args |-> Append(a, "-" \o self._option)]
         ELSE [exc |-> "", args |-> a]

PrependOption_apply_option(self, c, a) ==
    LET v == get_value(self, c) IN
    IF v.exc /= "" THEN [exc |-> v.exc, args |-> a]
    ELSE IF Truthy(v.val)
         THEN [exc |-> "", args |-> Append(a, "-" \o self._yes_prefix \o self._option)]
         ELSE [exc |-> "", args |-> Append(a, "-" \o self._no_prefix \o self._option)]

YesNoOption_apply_option(self, c, a) ==
    LET v == getitem(c.options, self._name) IN
    IF v.exc /= "" THEN [exc |-> v.exc, args |-> a]
    ELSE [exc |-> "",
          args |-> Append(a, "--" \o self._option \o "="
                              \o (IF Truthy(v.val) THEN "yes" ELSE "no"))]

SystemQtOption_apply_option(self, c, a) ==
    LET v == getitem(c.options, self._name) IN
    IF v.exc /= "" THEN [exc |-> v.exc, args |-> a]
    ELSE [exc |-> "",
          args |-> Append(a, "--" \o self._option \o "="
                              \o (IF Truthy(v.val) THEN "system" ELSE "qt"))]

BinaryOption_apply_option(self, c, a) ==
    LET v == getattr(c.options, self._name) IN
    IF v.exc /= "" THEN [exc |-> v.exc, args |-> a]
    ELSE [exc |-> "",
          args |-> Append(a, "-" \o (IF Truthy(v.val) THEN self._yes_option
                                                      ELSE self._no_option))]

ValueOption_apply_option(self, c, a) ==
    LET v == getitem(c.options, self._name) IN
    IF v.exc /= "" THEN [exc |-> v.exc, args |-> a]
    ELSE [exc |-> "", args |-> Append(a, "-" \o self._option \o "=" \o Str(v.val))]

\* self.apply_option(conan, args), by the class of self
apply_option(self, c, a) ==
    LET owner == MethodOwner(self.class, "apply_option") IN
    CASE owner = "SimpleOption" -> SimpleOption_apply_option(self, c, a)
      [] owner = "PrependOption" -> PrependOption_apply_option(self, c, a)
      [] owner = "YesNoOption" -> YesNoOption_apply_option(self, c, a)
      [] owner = "SystemQtOption" -> SystemQtOption_apply_option(self, c, a)
      [] owner = "BinaryOption" -> BinaryOption_apply_option(self, c, a)
      [] owner = "ValueOption" -> ValueOption_apply_option(self, c, a)
      [] OTHER -> [exc |-> "AttributeError", args |-> a]

---------------------------------------------------------------------------
(* GroupOption.  Its methods read self.option; __init__ stored _option.    *)
(* GroupOption.requirements and GroupOption.apply_if_available are left    *)
(* out: the body of requirements (`super{}.config_options`) is not an      *)
(* expression of the language, and nothing calls either method.  The other *)
(* definitions of the file are taken as they read.                         *)

RECURSIVE CollectAll(_, _)
CollectAll(objects, opts) ==
    IF objects = <<>> THEN opts
    ELSE CollectAll(Tail(objects), collect_option(Head(objects), opts))

RECURSIVE CollectAllDefaults(_, _)
CollectAllDefaults(objects, defaults) ==
    IF objects = <<>> THEN defaults
    ELSE CollectAllDefaults(Tail(objects),
                            collect_default_option(Head(objects), defaults))

RECURSIVE ConfigAll(_, _)
ConfigAll(objects, c) ==
    IF objects = <<>> THEN [exc |-> "", conan |-> c]
    ELSE LET r == config_options(Head(objects), c) IN
         IF r.exc /= "" THEN r ELSE ConfigAll(Tail(objects), r.conan)

GroupOption_collect_option(self, opts) ==
    IF ~HasAttr(self, "option") THEN [exc |-> "AttributeError", options |-> opts]
    ELSE [exc |-> "",
          options |-> CollectAll(self._sub_options,
                                 collect_option(self.option, opts))]

\* the argument of the first call is the name `options`, which nothing binds
GroupOption_collect_default_option(self, defaults) ==
    IF ~HasAttr(self, "option")
    THEN [exc |-> "AttributeError", default_options |-> defaults]
    ELSE [exc |-> "NameError", default_options |-> defaults]

GroupOption_config_options(self, c) ==
    IF ~HasAttr(self, "option") THEN [exc |-> "AttributeError", conan |-> c]
    ELSE LET r == config_options(self.option, c) IN
         IF r.exc /= "" THEN r ELSE ConfigAll(self._sub_options, r.conan)

---------------------------------------------------------------------------
(* The folding functions.                                                  *)

\* a fold that walks the list from its end
make_options_dict_reversed(opts, options_objects) ==
    CollectAll([k \in 1..Len(options_objects) |->
                   options_objects[Len(options_objects) + 1 - k]], opts)

make_options_dict(opts, options_objects) == CollectAll(options_objects, opts)

make_default_options_dict(defaults, options_objects) ==
    CollectAllDefaults(options_objects, defaults)

---------------------------------------------------------------------------
(* The recipes explored: the options a recipe declares, its platform and   *)
(* the live values its user chose.                                         *)

Platforms == {"Linux", "Windows"}
Availabilities == {NoneSet, OsSet({"Linux"})}
Requirement == PyStr("zlib/1.2.11")

LevelValues == <<PyInt(1), PyInt(2), PyInt(3)>>
WordValues == <<PyStr("yes"), PyStr("no")>>

Shapes == {"SimpleOption", "PrependOption", "YesNoOption", "SystemQtOption",
           "BinaryOption", "ValueOption", "ValueOption/str"}

\* One option of each shape; its default is the d-th value of its domain.
New(shape, name, d, os, req) ==
    CASE shape = "SimpleOption" ->
            SimpleOption(name, BoolValues[d], "bar", os, req)
      [] shape = "PrependOption" ->
            PrependOption(name, BoolValues[d], "bar", "with-", "without-", os, req)
      [] shape = "YesNoOption" ->
            YesNoOption(name, BoolValues[d], "qux", os, req)
      [] shape = "SystemQtOption" ->
            SystemQtOption(name, BoolValues[d], "zlib", os, req)
      [] shape = "BinaryOption" ->
            BinaryOption(name, BoolValues[d], "shared", "static", os, req)
      [] shape = "ValueOption" ->
            ValueOption(name, LevelValues, LevelValues[d], "level", os, req)
      [] OTHER ->
            ValueOption(name, WordValues, WordValues[d], "mode", os, req)

Built(shapes, names, ds, avs, reqs) ==
    LET made == {New(sh, n, d, os, r) :
                    sh \in shapes, n \in names, d \in ds, os \in avs, r \in reqs}
    IN {m.obj : m \in {x \in made : x.exc = ""}}

EmptyMap == [k \in {} |-> PyNone]

\* The live option store of a recipe declaring objects: every declared name
\* holds a value of the domain of an option declared under it.
RECURSIVE SeqRange(_)
SeqRange(q) == IF q = <<>> THEN {} ELSE {Head(q)} \cup SeqRange(Tail(q))

NamesOf(objects) == {o._name : o \in SeqRange(objects)}

DomainOf(objects, n) ==
    UNION {SeqRange(o._values) : o \in {x \in SeqRange(objects) : x._name = n}}

LiveStores(objects) ==
    {st \in [NamesOf(objects) -> UNION {DomainOf(objects, n) : n \in NamesOf(objects)}] :
        \A n \in NamesOf(objects) : st[n] \in DomainOf(objects, n)}

\* ... before the user chose: every name holds the default declared last
DefaultStore(objects) == CollectAllDefaults(objects, EmptyMap)

DefaultStores(objects) == {DefaultStore(objects)}

\* `live`: the user has chosen values (else the store holds the defaults)
InitWith(heaps, platforms, live, startArgs, startOptions, startDefaults) ==
    /\ objs \in heaps
    /\ conan \in {[os |-> os, options |-> st, requires |-> <<>>] :
                    os \in platforms,
                    st \in IF live THEN LiveStores(objs) ELSE DefaultStores(objs)}
    /\ args \in startArgs
    /\ options \in startOptions
    /\ default_options \in startDefaults
    /\ call = [op |-> "", self |-> <<>>]
    /\ result = Return(PyNone)

---------------------------------------------------------------------------
(* The calls a recipe makes.                                               *)

Called(op, self, res) ==
    /\ call' = [op |-> op, self |-> self]
    /\ result' = res

CallCollectOption(i) ==
    /\ options' = collect_option(objs[i], options)
    /\ Called("collect_option", <<i>>, Return(PyNone))
    /\ UNCHANGED <<objs, conan, args, default_options>>

CallCollectDefaultOption(i) ==
    /\ default_options' = collect_default_option(objs[i], default_options)
    /\ Called("collect_default_option", <<i>>, Return(PyNone))
    /\ UNCHANGED <<objs, conan, args, options>>

CallConfigOptions(i) ==
    LET r == config_options(objs[i], conan) IN
    /\ conan' = r.conan
    /\ Called("config_options", <<i>>, [exc |-> r.exc, val |-> PyNone])
    /\ UNCHANGED <<objs, args, options, default_options>>

CallRequirements(i) ==
    LET r == requirements(objs[i], conan) IN
    /\ Len(conan.requires) < MaxRequires
    /\ conan' = r.conan
    /\ Called("requirements", <<i>>, [exc |-> r.exc, val |-> PyNone])
    /\ UNCHANGED <<objs, args, options, default_options>>

CallApply(i) ==
    LET r == apply(objs[i], conan, args) IN
    /\ Len(args) < MaxArgs
    /\ args' = r.args
    /\ Called("apply", <<i>>, [exc |-> r.exc, val |-> PyNone])
    /\ UNCHANGED <<objs, conan, options, default_options>>

CallApplyOption(i) ==
    LET r == apply_option(objs[i], conan, args) IN
    /\ Len(args) < MaxArgs
    /\ args' = r.args
    /\ Called("apply_option", <<i>>, [exc |-> r.exc, val |-> PyNone])
    /\ UNCHANGED <<objs, conan, options, default_options>>

CallGetValue(i) ==
    /\ Called("get_value", <<i>>, get_value(objs[i], conan))
    /\ UNCHANGED <<objs, conan, args, options, default_options>>

\* the lists of declared options handed to the folding functions
Lists == {<<>>} \cup {<<i>> : i \in DOMAIN objs}
            \cup {l \in (DOMAIN objs) \X (DOMAIN objs) : l[1] /= l[2]}

Deref(list) == [k \in 1..Len(list) |-> objs[list[k]]]

CallMakeOptionsDict(list) ==
    /\ options' = make_options_dict(options, Deref(list))
    /\ Called("make_options_dict", list, Return(PyNone))
    /\ UNCHANGED <<objs, conan, args, default_options>>

CallMakeDefaultOptionsDict(list) ==
    /\ default_options' = make_default_options_dict(default_options, Deref(list))
    /\ Called("make_default_options_dict", list, Return(PyNone))
    /\ UNCHANGED <<objs, conan, args, options>>

\* GroupOption(objs[list[1]], the rest of list) and a call of one of its methods
Group(list) == GroupOption(objs[Head(list)], Deref(Tail(list)))

CallGroupCollectOption(list) ==
    LET r == GroupOption_collect_option(Group(list), options) IN
    /\ list /= <<>>
    /\ options' = r.options
    /\ Called("GroupOption.collect_option", list, [exc |-> r.exc, val |-> PyNone])
    /\ UNCHANGED <<objs, conan, args, default_options>>

CallGroupCollectDefaultOption(list) ==
    LET r == GroupOption_collect_default_option(Group(list), default_options) IN
    /\ list /= <<>>
    /\ default_options' = r.default_options
    /\ Called("GroupOption.collect_default_option", list,
              [exc |-> r.exc, val |-> PyNone])
    /\ UNCHANGED <<objs, conan, args, options>>

CallGroupConfigOptions(list) ==
    LET r == GroupOption_config_options(Group(list), conan) IN
    /\ list /= <<>>
    /\ conan' = r.conan
    /\ Called("GroupOption.config_options", list, [exc |-> r.exc, val |-> PyNone])
    /\ UNCHANGED <<objs, args, options, default_options>>

\* NoOption(name, default, option, os_availability, requirements) at declaration
NewNoOption(name, d, os, req) ==
    LET r == NoOption(name, BoolValues[d], "bar", os, req) IN
    /\ objs' = IF r.exc = "" THEN Append(objs, r.obj) ELSE objs
    /\ Called("NoOption", <<d>>, [exc |-> r.exc, val |-> PyNone])
    /\ UNCHANGED <<conan, args, options, default_options>>

Collecting ==
    \/ \E i \in DOMAIN objs : CallCollectOption(i)
    \/ \E i \in DOMAIN objs : CallCollectDefaultOption(i)
    \/ \E list \in Lists : CallMakeOptionsDict(list)
    \/ \E list \in Lists : CallMakeDefaultOptionsDict(list)
    \/ \E list \in Lists : CallGroupCollectOption(list)
    \/ \E list \in Lists : CallGroupCollectDefaultOption(list)
    \/ \E d \in {1, 2}, os \in Availabilities : NewNoOption("foo", d, os, PyNone)

Living ==
    \/ \E i \in DOMAIN objs : CallConfigOptions(i)
    \/ \E i \in DOMAIN objs : CallRequirements(i)
    \/ \E i \in DOMAIN objs : CallApply(i)
    \/ \E i \in DOMAIN objs : CallApplyOption(i)
    \/ \E i \in DOMAIN objs : CallGetValue(i)
    \/ \E list \in Lists : CallGroupConfigOptions(list)

Next == Collecting \/ Living

---------------------------------------------------------------------------
(* Specifications.                                                         *)

Pairs(firsts, seconds) == {<<o, p>> : o \in firsts, p \in seconds}

\* every shape, gated or not, with or without a requirement, beside a second
\* option that shares its name or not
HeapsLife ==
    Pairs(Built(Shapes, {"foo"}, {1}, Availabilities, {PyNone, Requirement}),
          Built({"SimpleOption"}, {"foo", "lvl"}, {2}, Availabilities, {Requirement}))

\* every shape and default, beside a second option of another domain that
\* shares its name or not
HeapsCollect ==
    Pairs(Built(Shapes, {"foo"}, {1, 2}, {NoneSet}, {PyNone}),
          Built({"SimpleOption", "ValueOption"}, {"foo", "lvl"}, {2},
                {OsSet({"Linux"})}, {Requirement}))

\* an ungated option with a requirement beside a gated one without
HeapsAll ==
    Pairs(Built({"SimpleOption", "ValueOption"}, {"foo"}, {1},
                {NoneSet}, {Requirement}),
          Built({"BinaryOption"}, {"foo", "lvl"}, {2}, {OsSet({"Linux"})}, {PyNone}))

StartArgs == {<<>>, <<"-opensource">>}
StartOptions == {EmptyMap, [shared |-> BoolValues], [foo |-> WordValues]}
StartDefaults == {EmptyMap, [shared |-> PyBool(TRUE)], [foo |-> PyStr("no")]}

InitLife ==
    InitWith(HeapsLife, Platforms, TRUE, StartArgs, {EmptyMap}, {EmptyMap})
InitCollect ==
    InitWith(HeapsCollect, {"Linux"}, FALSE, {<<>>}, StartOptions, StartDefaults)
Init ==
    InitWith(HeapsAll, Platforms, TRUE, {<<>>}, {EmptyMap}, {EmptyMap})

SpecLife == InitLife /\ [][Living]_vars
SpecCollect == InitCollect /\ [][Collecting]_vars
Spec == Init /\ [][Next]_vars

---------------------------------------------------------------------------
(* Properties.                                                             *)

\* the option the last call was made on
Self == objs[call.self[1]]

\* objs[i] names platforms and the recipe's is not one of them
OffPlatform(i) ==
    /\ ~objs[i]._os_availability.isNone
    /\ conan.os \notin objs[i]._os_availability.elems

Present(i) == objs[i]._name \in DOMAIN conan.options

IsPrefix(p, q) == Len(p) <= Len(q) /\ \A k \in 1..Len(p) : p[k] = q[k]

\* new is old with key mapped to value, and nothing else touched
Updated(new, old, key, value) ==
    /\ DOMAIN new = DOMAIN old \cup {key}
    /\ new[key] = value
    /\ \A k \in DOMAIN old \ {key} : new[k] = old[k]

\* C1: for an option that is not available on the recipe's platform,
\* config_options leaves its name out of the live option store, the name
\* never comes back, and every call of apply and of requirements on it ends
\* without error, with the argument list and the recipe as they were.
C1_UnavailableRemovedThenIgnored ==
    [][\A i \in DOMAIN objs :
          OffPlatform(i) =>
            /\ (~Present(i) => objs[i]._name \notin DOMAIN conan'.options)
            /\ (call'.self = <<i>> /\ call'.op = "config_options" =>
                    objs[i]._name \notin DOMAIN conan'.options)
            /\ (call'.self = <<i>> /\ call'.op \in {"apply", "requirements"} =>
                    /\ result'.exc = ""
                    /\ args' = args
                    /\ conan' = conan)]_vars

\* an unavailable option, removed by config_options, has then been applied
C1_Witness ==
    /\ call.op = "apply"
    /\ OffPlatform(call.self[1])
    /\ ~Present(call.self[1])
    /\ result.exc = ""

\* the tokens each kind is to append for live value v
Rendering(o, v) ==
    CASE o.class = "SimpleOption" ->
            (IF v = PyBool(TRUE) THEN <<"-" \o o._option>> ELSE <<>>)
      [] o.class = "PrependOption" ->
            (IF v = PyBool(TRUE) THEN <<"-" \o o._yes_prefix \o o._option>>
                                 ELSE <<"-" \o o._no_prefix \o o._option>>)
      [] o.class = "YesNoOption" ->
            (IF v = PyBool(TRUE) THEN <<"--" \o o._option \o "=yes">>
                                 ELSE <<"--" \o o._option \o "=no">>)
      [] o.class = "SystemQtOption" ->
            (IF v = PyBool(TRUE) THEN <<"--" \o o._option \o "=system">>
                                 ELSE <<"--" \o o._option \o "=qt">>)
      [] o.class = "BinaryOption" ->
            (IF v = PyBool(TRUE) THEN <<"-" \o o._yes_option>>
                                 ELSE <<"-" \o o._no_option>>)
      [] OTHER -> <<"-" \o o._option \o "=" \o Str(v)>>

InDomain(i) == Present(i) /\ conan.options[objs[i]._name] \in SeqRange(objs[i]._values)

\* C2: apply on an available option whose live value is in its domain
\* appends exactly the tokens of its kind's rendering rule.
C2_ApplyAppendsRendering ==
    [][\A i \in DOMAIN objs :
          call'.op = "apply" /\ call'.self = <<i>> /\ ~OffPlatform(i) /\ InDomain(i) =>
            args' = args \o Rendering(objs[i], conan.options[objs[i]._name])]_vars

\* C3: NoOption("foo", default, option="bar") constructs an option of
\* domain [True, False] with the given default, option name "bar" and the
\* prefixes "" and "no-".
C3_NoOptionConstructs ==
    call.op = "NoOption" =>
        /\ result.exc = ""
        /\ objs[Len(objs)].class = "NoOption"
        /\ objs[Len(objs)]._values = BoolValues
        /\ objs[Len(objs)]._default_value = BoolValues[call.self[1]]
        /\ objs[Len(objs)]._option = "bar"
        /\ objs[Len(objs)]._yes_prefix = ""
        /\ objs[Len(objs)]._no_prefix = "no-"

\* C4: requirements registers the option's requirement, once, exactly when
\* the option is available, has a requirement and holds the live value True;
\* otherwise it registers nothing.  Either way the option store is kept.
C4_RequirementsIffEnabled ==
    [][\A i \in DOMAIN objs :
          call'.op = "requirements" /\ call'.self = <<i>> =>
            /\ conan'.options = conan.options
            /\ conan'.os = conan.os
            /\ conan'.requires =
                 IF /\ ~OffPlatform(i)
                    /\ objs[i]._requirements /= PyNone
                    /\ Present(i)
                    /\ conan.options[objs[i]._name] = PyBool(TRUE)
                 THEN Append(conan.requires, objs[i]._requirements.s)
                 ELSE conan.requires]_vars

\* requirements has registered the requirement of an enabled option
C4_Witness ==
    /\ call.op = "requirements"
    /\ ~OffPlatform(call.self[1])
    /\ Present(call.self[1])
    /\ conan.options[Self._name] = PyBool(TRUE)
    /\ conan.requires = <<Self._requirements.s>>

\* C5: a second config_options right after a first that did not fail does
\* not fail either and leaves the recipe as the first left it.
C5_ConfigOptionsIdempotent ==
    [][(call.op = "config_options" /\ result.exc = ""
          /\ call'.op = "config_options" /\ call'.self = call.self)
       => (result'.exc = "" /\ conan' = conan)]_vars

\* C6: collect_option leaves the mapping as it was but for name mapped to
\* the value domain, collect_default_option as it was but for name mapped to
\* the default, and a further call of either changes nothing.
C6_CollectInsertsOneEntry ==
    [][\A i \in DOMAIN objs :
          /\ call'.op = "collect_option" /\ call'.self = <<i>> =>
                /\ Updated(options', options, objs[i]._name, objs[i]._values)
                /\ collect_option(objs[i], options') = options'
                /\ default_options' = default_options
          /\ call'.op = "collect_default_option" /\ call'.self = <<i>> =>
                /\ Updated(default_options', default_options,
                           objs[i]._name, objs[i]._default_value)
                /\ collect_default_option(objs[i], default_options') = default_options'
                /\ options' = options]_vars

\* both mappings hold an option's entry next to the one they started with
C6_Witness ==
    /\ call.op \in {"collect_option", "collect_default_option"}
    /\ DOMAIN options = {"shared", Self._name}
    /\ options[Self._name] = Self._values
    /\ DOMAIN default_options = {"shared", Self._name}
    /\ default_options[Self._name] = Self._default_value

\* the last option of list that carries name n
LastNamed(list, n) ==
    LET ks == {k \in 1..Len(list) : objs[list[k]]._name = n} IN
    objs[list[CHOOSE k \in ks : \A j \in ks : j <= k]]

ListNames(list) == {objs[list[k]]._name : k \in 1..Len(list)}

C8_GroupForwards ==
    [][/\ call'.op = "GroupOption.collect_option" =>
            /\ result'.exc = ""
            /\ options' = CollectAll(Deref(call'.self), options)
       /\ call'.op = "GroupOption.collect_default_option" =>
            /\ result'.exc = ""
            /\ default_options' = CollectAllDefaults(Deref(call'.self), default_options)
       /\ call'.op = "GroupOption.config_options" =>
            /\ result'.exc = ""
            /\ conan' = ConfigAll(Deref(call'.self), conan).conan]_vars

\* C9: get_value returns the live value under the option's name, and raises
\* AttributeError when the name is no longer in the store; it changes
\* neither the recipe nor any option.
C9_GetValueOrAttributeError ==
    [][\A i \in DOMAIN objs :
          call'.op = "get_value" /\ call'.self = <<i>> =>
            /\ result' = IF Present(i) THEN Return(conan.options[objs[i]._name])
                         ELSE Raise("AttributeError")
            /\ conan' = conan
            /\ objs' = objs]_vars

\* get_value raised on an option that config_options had removed
C9_Witness ==
    /\ call.op = "get_value"
    /\ result.exc = "AttributeError"
    /\ OffPlatform(call.self[1])
    /\ ~Present(call.self[1])

\* C10: no call changes an option object; the option store changes only in
\* a config_options call, by losing that option's name; the argument list
\* only grows at its end.
C10_Frame ==
    [][/\ \A i \in DOMAIN objs : i \in DOMAIN objs' /\ objs'[i] = objs[i]
       /\ conan'.os = conan.os
       /\ conan'.options /= conan.options =>
            /\ call'.op = "config_options"
            /\ DOMAIN conan'.options = DOMAIN conan.options \ {objs[call'.self[1]]._name}
            /\ \A n \in DOMAIN conan'.options : conan'.options[n] = conan.options[n]
       /\ IsPrefix(args, args')]_vars

\* a recipe that lost one of two names, registered a requirement and got a
\* token appended
C10_Witness ==
    /\ Cardinality(DOMAIN conan.options) = 1
    /\ Cardinality(NamesOf(objs)) = 2
    /\ conan.requires /= <<>>
    /\ args /= <<>>

====
